---- MODULE Spec2Model ----
(***************************************************************************)
(* A model of gogit (src/main.go): the content-addressed object store, the *)
(* binary staging index, the tree and commit encodings and the history     *)
(* walk.  Strings and files are sequences of bytes (naturals below 256).   *)
(***************************************************************************)
EXTENDS Integers, Sequences, FiniteSets, TLC

(***************************************************************************)
(* What the model takes from the platform.                                 *)
(*  - crypto/sha1 is free of collisions on the strings of a run: the k-th  *)
(*    distinct string digested gets Digest(k), and Digest(0) is the digest *)
(*    of no string of the run.                                             *)
(*  - compress/zlib gives the written bytes back from a file that was      *)
(*    written and closed, and fails on a file whose write or close failed. *)
(*  - A system call fails only where the code looks at its error:          *)
(*    os.MkdirAll on a missing directory, os.Create, the write and the     *)
(*    close of the zlib stream, and os.Create and WriteString of           *)
(*    writeIndex.  os.Stat and os.ReadFile answer for the file system as   *)
(*    it is, and the binary.Write calls of writeIndex, whose errors the    *)
(*    code drops, succeed.                                                 *)
(*  - A command runs to its end before the next one starts; only cmdLog is *)
(*    followed pass by pass.                                               *)
(***************************************************************************)

VARIABLES
    workdir,     \* working tree: path -> file content, or NoFile
    gogit,       \* whether the directory .gogit exists
    head,        \* content of .gogit/HEAD, or NoFile
    objdirs,     \* the directories .gogit/objects/<xx> that exist
    objfiles,    \* <<xx, rest>> -> the object file stored there
    index,       \* content of .gogit/index, or NoFile
    sha1,        \* the byte strings digested so far, in order of first digest
    last,        \* what the last command did
    pc,          \* cmdLog: "idle", "walking", "done" or "aborted"
    currentSha,  \* cmdLog: the cursor
    yielded,     \* cmdLog: the ids printed as "commit <id>", in order
    authored,    \* history: id -> the fields cmdCommitTree encoded into it
    cpc,         \* codec runs: position
    cin,         \* codec runs: the input
    cbuf,        \* codec runs: the encoded payload
    cout         \* codec runs: what decoding reported

vars == <<workdir, gogit, head, objdirs, objfiles, index, sha1, last,
          pc, currentSha, yielded, authored, cpc, cin, cbuf, cout>>

storeVars == <<workdir, gogit, head, objdirs, objfiles, index, sha1, last,
               pc, currentSha, yielded, authored>>

codecVars == <<cpc, cin, cbuf, cout>>

-----------------------------------------------------------------------------
(* Bounds of the model.                                                    *)

\* how many distinct byte strings are ever digested
MaxObjects == 3

\* how many entries a tree given to the tree encoding has
MaxEntries == 2

\* how many bytes a commit message has
MaxMessage == 3

-----------------------------------------------------------------------------
(* Bytes and strings.                                                      *)

NUL == 0
LF == 10
SP == 32
IdLen == 20

NoFile == [exists |-> FALSE, data |-> <<>>]

File(d) == [exists |-> TRUE, data |-> d]

Str_blob == <<98, 108, 111, 98>>
Str_tree == <<116, 114, 101, 101>>
Str_commit == <<99, 111, 109, 109, 105, 116>>

\* fmt's %d of a natural
RECURSIVE Itoa(_)
Itoa(n) ==
    IF n < 10 THEN <<48 + n>> ELSE Itoa(n \div 10) \o <<48 + (n % 10)>>

HexDigit(d) == IF d < 10 THEN 48 + d ELSE 87 + d

\* bytes.IndexByte: the 0-based place of the first c in s, or -1
IndexByte(s, c) ==
    IF \E i \in 1..Len(s) : s[i] = c
    THEN (CHOOSE i \in 1..Len(s) : s[i] = c /\ \A j \in 1..(i - 1) : s[j] # c) - 1
    ELSE -1

\* Go's s[k:], k 0-based
SliceFrom(s, k) == SubSeq(s, k + 1, Len(s))

\* strings.Split on a one-byte separator
RECURSIVE Split(_, _)
Split(s, sep) ==
    LET i == IndexByte(s, sep)
    IN  IF i = -1 THEN <<s>>
        ELSE <<SubSeq(s, 1, i)>> \o Split(SliceFrom(s, i + 1), sep)

\* strings.Join
RECURSIVE Join(_, _)
Join(elems, sep) ==
    IF elems = <<>> THEN <<>>
    ELSE IF Len(elems) = 1 THEN elems[1]
    ELSE elems[1] \o sep \o Join(Tail(elems), sep)

HasPrefix(s, p) == Len(s) >= Len(p) /\ SubSeq(s, 1, Len(p)) = p

TrimPrefix(s, p) == IF HasPrefix(s, p) THEN SliceFrom(s, Len(p)) ELSE s

\* hex.EncodeToString
RECURSIVE EncodeToString(_)
EncodeToString(b) ==
    IF b = <<>> THEN <<>>
    ELSE <<HexDigit(Head(b) \div 16), HexDigit(Head(b) % 16)>> \o EncodeToString(Tail(b))

HexVal(c) == IF c >= 97 THEN c - 87 ELSE c - 48

\* hex.DecodeString, of a string of hex digits of even length
RECURSIVE DecodeString(_)
DecodeString(s) ==
    IF Len(s) < 2 THEN <<>>
    ELSE <<16 * HexVal(s[1]) + HexVal(s[2])>> \o DecodeString(SliceFrom(s, 2))

-----------------------------------------------------------------------------
(* SHA-1.  The digest is a fixed function no model can compute; what the   *)
(* program relies on is that it is a function and that no two strings it   *)
(* ever digests collide.  The k-th distinct string digested gets Digest(k);*)
(* Digest(0) is the digest of no string the program digests.               *)

DigestLead == <<0, 171, 171, 32, 10, 5, 6, 7>>

DigestTail == <<19, 20, 21, 22, 23, 24, 25, 26, 27, 28, 29, 30, 31, 32, 33, 34, 35, 36>>

Digest(k) == <<IF k = 0 THEN 255 ELSE DigestLead[k], k>> \o DigestTail

\* place of s among the strings digested, 0 if it is new
DigestedAt(seen, s) ==
    IF \E k \in 1..Len(seen) : seen[k] = s
    THEN CHOOSE k \in 1..Len(seen) : seen[k] = s
    ELSE 0

Sha1Seen(seen, s) == IF DigestedAt(seen, s) = 0 THEN Append(seen, s) ELSE seen

Sha1Sum(seen, s) ==
    IF DigestedAt(seen, s) = 0 THEN Digest(Len(seen) + 1)
    ELSE Digest(DigestedAt(seen, s))

\* an id that names no object
BogusSha == EncodeToString(Digest(0))

\* the ids the program has printed so far
KnownShas == {EncodeToString(Digest(k)) : k \in 1..Len(sha1)}

-----------------------------------------------------------------------------
(* The object store.                                                       *)

\* the file a zlib writer leaves when it wrote all of content and was closed
ZlibWhole(content) == [z |-> content, whole |-> TRUE]

\* the file left when the compressed write or the close failed
ZlibCut == [z |-> <<>>, whole |-> FALSE]

ObjPath(hash) == <<SubSeq(hash, 1, 2), SliceFrom(hash, 2)>>

FsState(g, d, f) == [gogit |-> g, dirs |-> d, files |-> f]

\* saveObject without its os.Stat: the file is created and written every time
saveObject_NoStat(fs, hash, content, fault) ==
    LET dirName == ObjPath(hash)[1]
        made == FsState(TRUE, fs.dirs \cup {dirName}, fs.files)
        others == [q \in DOMAIN fs.files \ {ObjPath(hash)} |-> fs.files[q]]
    IN  IF dirName \notin fs.dirs /\ fault = "mkdir"
        THEN [fs |-> fs, err |-> TRUE, wrote |-> 0]
        ELSE IF fault = "create"
        THEN [fs |-> made, err |-> TRUE, wrote |-> 0]
        ELSE IF fault \in {"write", "close"}
        THEN [fs |-> FsState(TRUE, made.dirs, others @@ (ObjPath(hash) :> ZlibCut)),
              err |-> TRUE, wrote |-> 1]
        ELSE [fs |-> FsState(TRUE, made.dirs,
                             others @@ (ObjPath(hash) :> ZlibWhole(content))),
              err |-> FALSE, wrote |-> 1]

\* saveObject with os.Create ahead of os.Stat: a file that exists is emptied
saveObject_CreateFirst(fs, hash, content, fault) ==
    LET dirName == ObjPath(hash)[1]
        made == FsState(TRUE, fs.dirs \cup {dirName}, fs.files)
        others == [q \in DOMAIN fs.files \ {ObjPath(hash)} |-> fs.files[q]]
    IN  IF dirName \notin fs.dirs /\ fault = "mkdir"
        THEN [fs |-> fs, err |-> TRUE, wrote |-> 0]
        ELSE IF fault = "create"
        THEN [fs |-> made, err |-> TRUE, wrote |-> 0]
        ELSE IF ObjPath(hash) \in DOMAIN fs.files
        THEN [fs |-> FsState(TRUE, made.dirs, others @@ (ObjPath(hash) :> ZlibCut)),
              err |-> FALSE, wrote |-> 0]
        ELSE IF fault \in {"write", "close"}
        THEN [fs |-> FsState(TRUE, made.dirs, fs.files @@ (ObjPath(hash) :> ZlibCut)),
              err |-> TRUE, wrote |-> 1]
        ELSE [fs |-> FsState(TRUE, made.dirs,
                             fs.files @@ (ObjPath(hash) :> ZlibWhole(content))),
              err |-> FALSE, wrote |-> 1]

\* saveObject: fs is the store before, fault the system call that fails
saveObject(fs, hash, content, fault) ==
    LET dirName == ObjPath(hash)[1]
        made == FsState(TRUE, fs.dirs \cup {dirName}, fs.files)
    IN  IF dirName \notin fs.dirs /\ fault = "mkdir"
        THEN [fs |-> fs, err |-> TRUE, wrote |-> 0]
        ELSE IF ObjPath(hash) \in DOMAIN fs.files
        THEN [fs |-> made, err |-> FALSE, wrote |-> 0]
        ELSE IF fault = "create"
        THEN [fs |-> made, err |-> TRUE, wrote |-> 0]
        ELSE IF fault \in {"write", "close"}
        THEN [fs |-> FsState(TRUE, made.dirs, fs.files @@ (ObjPath(hash) :> ZlibCut)),
              err |-> TRUE, wrote |-> 1]
        ELSE [fs |-> FsState(TRUE, made.dirs,
                             fs.files @@ (ObjPath(hash) :> ZlibWhole(content))),
              err |-> FALSE, wrote |-> 1]

ObjHeader(typeStr, content) == typeStr \o <<SP>> \o Itoa(Len(content)) \o <<NUL>>

\* storeObject: exit is TRUE when the process ends with os.Exit(1)
storeObject(fs, seen, typeStr, content, fault) ==
    LET store == ObjHeader(typeStr, content) \o content
        hashString == EncodeToString(Sha1Sum(seen, store))
        saved == saveObject(fs, hashString, store, fault)
    IN  [fs |-> saved.fs, seen |-> Sha1Seen(seen, store), hash |-> hashString,
         exit |-> saved.err, err |-> FALSE, wrote |-> saved.wrote,
         kind |-> typeStr, payload |-> content]

\* readObject
readObject(files, hash) ==
    IF Len(hash) < 2 THEN [err |-> "panic", content |-> <<>>]
    ELSE IF ObjPath(hash) \notin DOMAIN files THEN [err |-> "not-exist", content |-> <<>>]
    ELSE IF ~files[ObjPath(hash)].whole THEN [err |-> "zlib", content |-> <<>>]
    ELSE [err |-> "", content |-> files[ObjPath(hash)].z]

\* hashObject: os.ReadFile fails on a path that names no file
hashObject(fs, seen, wd, path, typeStr, fault) ==
    IF path \notin DOMAIN wd \/ ~wd[path].exists
    THEN [fs |-> fs, seen |-> seen, hash |-> <<>>, exit |-> FALSE, err |-> TRUE,
          wrote |-> 0, kind |-> <<>>, payload |-> <<>>]
    ELSE storeObject(fs, seen, typeStr, wd[path].data, fault)

-----------------------------------------------------------------------------
(* The staging index.                                                      *)

Str_DIRC == <<68, 73, 82, 67>>

\* 0100644
FileMode == 33188

\* binary.BigEndian, 4 and 2 bytes
BE32(n) == <<(n \div 16777216) % 256, (n \div 65536) % 256, (n \div 256) % 256, n % 256>>

BE16(n) == <<(n \div 256) % 256, n % 256>>

BEVal(b) == IF Len(b) = 4
            THEN 16777216 * b[1] + 65536 * b[2] + 256 * b[3] + b[4]
            ELSE 256 * b[1] + b[2]

RECURSIVE IndexRecords(_)
IndexRecords(entries) ==
    IF entries = <<>> THEN <<>>
    ELSE BE32(Head(entries).Mode) \o Head(entries).Hash
         \o BE16(Len(Head(entries).Path) % 65536) \o Head(entries).Path
         \o IndexRecords(Tail(entries))

\* the bytes writeIndex writes (the count of entries stays far below 2^32)
IndexBytes(entries) ==
    Str_DIRC \o BE32(1) \o BE32(Len(entries)) \o IndexRecords(entries)

\* writeIndex: os.Create needs .gogit; fault is the system call that fails
writeIndex(g, idx, entries, fault) ==
    IF ~g \/ fault = "index-create" THEN [index |-> idx, err |-> TRUE]
    ELSE IF fault = "index-write" THEN [index |-> File(<<>>), err |-> TRUE]
    ELSE [index |-> File(IndexBytes(entries)), err |-> FALSE]

\* the loop of readIndex from byte offset off, n entries to go
RECURSIVE ReadEntries(_, _, _)
ReadEntries(data, off, n) ==
    IF n = 0 THEN [err |-> "", entries |-> <<>>]
    ELSE IF Len(data) < off + 26 THEN [err |-> "eof", entries |-> <<>>]
    ELSE LET mode == BEVal(SubSeq(data, off + 1, off + 4))
             hash == SubSeq(data, off + 5, off + 24)
             pathLen == BEVal(SubSeq(data, off + 25, off + 26))
         IN  IF Len(data) < off + 26 + pathLen THEN [err |-> "eof", entries |-> <<>>]
             ELSE LET rest == ReadEntries(data, off + 26 + pathLen, n - 1)
                      entry == [Mode |-> mode, Hash |-> hash,
                                Path |-> SubSeq(data, off + 27, off + 26 + pathLen)]
                  IN  IF rest.err # "" THEN rest
                      ELSE [err |-> "", entries |-> <<entry>> \o rest.entries]

\* readIndex: a short read of version or count leaves the value 0
readIndex(idx) ==
    IF ~idx.exists THEN [err |-> "not-exist", entries |-> <<>>]
    ELSE IF idx.data = <<>> THEN [err |-> "eof", entries |-> <<>>]
    ELSE IF ~HasPrefix(idx.data, Str_DIRC) THEN [err |-> "signature", entries |-> <<>>]
    ELSE LET count == IF Len(idx.data) >= 12 THEN BEVal(SubSeq(idx.data, 9, 12)) ELSE 0
         IN  ReadEntries(idx.data, 12, count)

\* cmdAdd without its search for the path: the entry is always appended
StageEntry_Append(entries, relPath, hashArr) ==
    Append(entries, [Mode |-> FileMode, Hash |-> hashArr, Path |-> relPath])

\* the replace-or-append of cmdAdd
StageEntry(entries, relPath, hashArr) ==
    IF \E i \in 1..Len(entries) : entries[i].Path = relPath
    THEN LET i == CHOOSE i \in 1..Len(entries) :
                      /\ entries[i].Path = relPath
                      /\ \A j \in 1..(i - 1) : entries[j].Path # relPath
         IN  [entries EXCEPT ![i].Hash = hashArr, ![i].Mode = FileMode]
    ELSE Append(entries, [Mode |-> FileMode, Hash |-> hashArr, Path |-> relPath])

\* cmdAdd
cmdAdd(fs, seen, wd, idx, path, fault) ==
    LET h == hashObject(fs, seen, wd, path, Str_blob, fault)
        loaded == readIndex(idx)
        entries == StageEntry(loaded.entries, path, DecodeString(h.hash))
        written == writeIndex(h.fs.gogit, idx, entries, fault)
    IN  IF h.err \/ h.exit THEN [put |-> h, index |-> idx, err |-> TRUE]
        ELSE IF loaded.err \notin {"", "not-exist"}
        THEN [put |-> h, index |-> idx, err |-> TRUE]
        ELSE [put |-> h, index |-> written.index, err |-> written.err]

-----------------------------------------------------------------------------
(* Trees.                                                                  *)

Str_100644 == <<49, 48, 48, 54, 52, 52>>
Str_40000 == <<52, 48, 48, 48, 48>>
Str_040000 == <<48, 52, 48, 48, 48, 48>>
Str_dot == <<46>>
Str_gogit == <<46, 103, 111, 103, 105, 116>>
Str_git == <<46, 103, 105, 116>>
Str_gitignore == <<46, 103, 105, 116, 105, 103, 110, 111, 114, 101>>
Slash == 47

\* filepath.Join(dirPath, name)
PathJoin(dirPath, name) ==
    IF dirPath = Str_dot THEN name ELSE dirPath \o <<Slash>> \o name

\* byte-wise order of two names
RECURSIVE NameLess(_, _)
NameLess(a, b) ==
    IF a = <<>> THEN b # <<>>
    ELSE IF b = <<>> THEN FALSE
    ELSE IF Head(a) # Head(b) THEN Head(a) < Head(b)
    ELSE NameLess(Tail(a), Tail(b))

\* the set of directory entries as the sorted list os.ReadDir returns
RECURSIVE SortedEntries(_)
SortedEntries(S) ==
    IF S = {} THEN <<>>
    ELSE LET first == CHOOSE e \in S : \A o \in S \ {e} : NameLess(e.name, o.name)
         IN  <<first>> \o SortedEntries(S \ {first})

\* os.ReadDir(dirPath) over the working tree wd; g: .gogit exists
ReadDir(wd, g, dirPath) ==
    LET dir == IF dirPath = Str_dot THEN <<>> ELSE Split(dirPath, Slash)
        under == {Split(p, Slash) : p \in {q \in DOMAIN wd : wd[q].exists}}
        here == {c \in under : Len(c) > Len(dir) /\ SubSeq(c, 1, Len(dir)) = dir}
        found == {[name |-> c[Len(dir) + 1], isDir |-> Len(c) > Len(dir) + 1] : c \in here}
        meta == IF g /\ dirPath = Str_dot
                THEN {[name |-> Str_gogit, isDir |-> TRUE]} ELSE {}
    IN  SortedEntries(found \cup meta)

\* one record of a tree payload: "<mode> <name>\0" and the 20 raw bytes
TreeRecord(mode, name, sha) == mode \o <<SP>> \o name \o <<NUL>> \o DecodeString(sha)

\* a run of cmdWriteTree: the store, the digests, the calls of storeObject so
\* far, the files written, and how the last call of storeObject ended
WtState(fs, seen, calls, wrote, put) ==
    [fs |-> fs, seen |-> seen, calls |-> calls, wrote |-> wrote, put |-> put]

NoPut == [hash |-> <<>>, exit |-> FALSE, err |-> FALSE, kind |-> <<>>, payload |-> <<>>]

PutOf(r) == [hash |-> r.hash, exit |-> r.exit, err |-> r.err, kind |-> r.kind,
             payload |-> r.payload]

FaultAt(flt, call) == IF flt.at = call THEN flt.kind ELSE "none"

RECURSIVE cmdWriteTree(_, _, _, _)
RECURSIVE WriteTreeLoop(_, _, _, _, _, _)

\* the loop of cmdWriteTree over entries[i..], buffer holding the records so far
WriteTreeLoop(st, wd, dirPath, flt, entries, buffer) ==
    IF entries = <<>>
    THEN LET r == storeObject(st.fs, st.seen, Str_tree, buffer, FaultAt(flt, st.calls + 1))
         IN  WtState(r.fs, r.seen, st.calls + 1, st.wrote + r.wrote, PutOf(r))
    ELSE LET entry == Head(entries)
             path == PathJoin(dirPath, entry.name)
         IN  IF entry.name \in {Str_gogit, Str_git, Str_gitignore}
             THEN WriteTreeLoop(st, wd, dirPath, flt, Tail(entries), buffer)
             ELSE IF entry.isDir
             THEN LET sub == cmdWriteTree(st, wd, path, flt)
                  IN  IF sub.put.exit \/ sub.put.err THEN sub
                      ELSE WriteTreeLoop(sub, wd, dirPath, flt, Tail(entries),
                               buffer \o TreeRecord(Str_40000, entry.name, sub.put.hash))
             ELSE LET r == hashObject(st.fs, st.seen, wd, path, Str_blob,
                                      FaultAt(flt, st.calls + 1))
                      sub == WtState(r.fs, r.seen, st.calls + 1, st.wrote + r.wrote, PutOf(r))
                  IN  IF r.exit \/ r.err THEN sub
                      ELSE WriteTreeLoop(sub, wd, dirPath, flt, Tail(entries),
                               buffer \o TreeRecord(Str_100644, entry.name, r.hash))

cmdWriteTree(st, wd, dirPath, flt) ==
    WriteTreeLoop(st, wd, dirPath, flt, ReadDir(wd, st.fs.gogit, dirPath), <<>>)

\* make([]byte, 20)
ZeroId == <<0, 0, 0, 0, 0, 0, 0, 0, 0, 0, 0, 0, 0, 0, 0, 0, 0, 0, 0, 0>>

\* the loop of cmdLsTree over what is left of the payload: the lines printed
\* and how the loop ended
RECURSIVE LsTreeLoop(_)
LsTreeLoop(buf) ==
    IF Len(buf) = 0 THEN [status |-> "ok", printed |-> <<>>]
    ELSE LET i == IndexByte(buf, NUL)
         IN  IF i = -1 THEN [status |-> "error-reading-line", printed |-> <<>>]
             ELSE LET parts == Split(SubSeq(buf, 1, i), SP)
                      rest == SliceFrom(buf, i + 1)
                      n == IF Len(rest) < IdLen THEN Len(rest) ELSE IdLen
                      shaBytes == SubSeq(rest, 1, n) \o SubSeq(ZeroId, 1, IdLen - n)
                      mode == parts[1]
                      line == [mode |-> mode,
                               typeStr |-> IF mode \in {Str_40000, Str_040000}
                                           THEN Str_tree ELSE Str_blob,
                               shaStr |-> EncodeToString(shaBytes),
                               name |-> parts[2]]
                      more == LsTreeLoop(SliceFrom(rest, n))
                  IN  IF Len(parts) < 2 THEN [status |-> "panic", printed |-> <<>>]
                      ELSE [status |-> more.status, printed |-> <<line>> \o more.printed]

\* cmdLsTree
cmdLsTree(files, hash) ==
    LET r == readObject(files, hash)
        nullIndex == IndexByte(r.content, NUL)
    IN  IF r.err # "" THEN [status |-> "error-reading-object", printed |-> <<>>]
        ELSE IF nullIndex = -1 THEN [status |-> "no-null-byte", printed |-> <<>>]
        ELSE LsTreeLoop(SliceFrom(r.content, nullIndex + 1))

-----------------------------------------------------------------------------
(* Commits.                                                                *)

Str_treeSp == Str_tree \o <<SP>>
Str_parentSp == <<112, 97, 114, 101, 110, 116, SP>>
Str_authorSp == <<97, 117, 116, 104, 111, 114, SP>>
Str_committerSp == <<99, 111, 109, 109, 105, 116, 116, 101, 114, SP>>
\* "GoGit User <user@example.com>"
Str_ident == <<71, 111, 71, 105, 116, 32, 85, 115, 101, 114, 32, 60, 117, 115, 101,
               114, 64, 101, 120, 97, 109, 112, 108, 101, 46, 99, 111, 109, 62>>
\* "+0000"
Str_timezone == <<43, 48, 48, 48, 48>>
\* the separator cmdLog joins the message lines with: "\n   "
Str_msgSep == <<LF, SP, SP, SP>>

\* the payload cmdCommitTree builds
CommitBuffer(treeSha, parentSha, timestamp, message) ==
    LET author == Str_ident \o <<SP>> \o Itoa(timestamp) \o <<SP>> \o Str_timezone
    IN  Str_treeSp \o treeSha \o <<LF>>
        \o (IF parentSha # <<>> THEN Str_parentSp \o parentSha \o <<LF>> ELSE <<>>)
        \o Str_authorSp \o author \o <<LF>>
        \o Str_committerSp \o author \o <<LF>>
        \o <<LF>> \o message \o <<LF>>

\* cmdCommitTree, the flags already read; an empty message is refused
cmdCommitTree(fs, seen, treeSha, parentSha, timestamp, message, fault) ==
    IF message = <<>>
    THEN [fs |-> fs, seen |-> seen, hash |-> <<>>, exit |-> FALSE, err |-> TRUE,
          wrote |-> 0, kind |-> <<>>, payload |-> <<>>]
    ELSE storeObject(fs, seen, Str_commit,
                     CommitBuffer(treeSha, parentSha, timestamp, message), fault)

\* the first loop of cmdLog with the whole line kept as the parent
RECURSIVE HeaderParent_KeepPrefix(_, _)
HeaderParent_KeepPrefix(lines, parentSha) ==
    IF lines = <<>> THEN parentSha
    ELSE IF HasPrefix(Head(lines), Str_parentSp)
    THEN HeaderParent_KeepPrefix(Tail(lines), Head(lines))
    ELSE IF Head(lines) = <<>> THEN parentSha
    ELSE HeaderParent_KeepPrefix(Tail(lines), parentSha)

\* the first loop of cmdLog over lines: the parent named before the blank line
RECURSIVE HeaderParent(_, _)
HeaderParent(lines, parentSha) ==
    IF lines = <<>> THEN parentSha
    ELSE IF HasPrefix(Head(lines), Str_parentSp)
    THEN HeaderParent(Tail(lines), TrimPrefix(Head(lines), Str_parentSp))
    ELSE IF HasPrefix(Head(lines), Str_authorSp) \/ HasPrefix(Head(lines), Str_committerSp)
    THEN HeaderParent(Tail(lines), parentSha)
    ELSE IF Head(lines) = <<>> THEN parentSha
    ELSE HeaderParent(Tail(lines), parentSha)

\* the second loop of cmdLog: the 0-based index after the first blank line, or -1
MsgStartIndex(lines) ==
    IF \E i \in 1..Len(lines) : lines[i] = <<>>
    THEN CHOOSE i \in 1..Len(lines) : lines[i] = <<>> /\ \A j \in 1..(i - 1) : lines[j] # <<>>
    ELSE -1

\* one pass of the loop of cmdLog over the content read at the cursor
LogDecode(content) ==
    LET nullIndex == IndexByte(content, NUL)
        lines == Split(SliceFrom(content, nullIndex + 1), LF)
        msgStartIndex == MsgStartIndex(lines)
        shown == msgStartIndex # -1 /\ msgStartIndex < Len(lines)
    IN  [lines |-> lines,
         parentSha |-> HeaderParent(lines, <<>>),
         shown |-> shown,
         message |-> IF shown THEN Join(SliceFrom(lines, msgStartIndex), Str_msgSep)
                     ELSE <<>>]

-----------------------------------------------------------------------------
(* The commands.  Each run of the program is one command; a command that   *)
(* is not cmdLog runs to its end in one step.  fault names the system call *)
(* of the run that fails, if any.                                          *)

PutFaults == {"mkdir", "create", "write", "close"}
IndexFaults == {"index-create", "index-write"}

\* "ref: refs/heads/master\n"
Str_headRef == <<114, 101, 102, 58, 32, 114, 101, 102, 115, 47, 104, 101, 97, 100,
                 115, 47, 109, 97, 115, 116, 101, 114, 10>>

Fs == FsState(gogit, objdirs, objfiles)

Done(cmd, arg, status, put, wrote, out) ==
    [cmd |-> cmd, arg |-> arg, status |-> status, put |-> put, wrote |-> wrote,
     out |-> out]

StatusOf(r) == IF r.exit THEN "exit" ELSE IF r.err THEN "err" ELSE "ok"

\* a new process starts: nothing of an earlier cmdLog is left
NoWalk ==
    /\ pc # "walking"
    /\ pc' = "idle"
    /\ currentSha' = <<>>
    /\ yielded' = <<>>

SetFs(fs) ==
    /\ gogit' = fs.gogit
    /\ objdirs' = fs.dirs
    /\ objfiles' = fs.files

\* the user changes, creates or removes a file of the working tree
Edit(path, file) ==
    /\ NoWalk
    /\ workdir[path] # file
    /\ workdir' = [workdir EXCEPT ![path] = file]
    /\ last' = Done("edit", path, "ok", NoPut, 0, <<>>)
    /\ UNCHANGED <<gogit, head, objdirs, objfiles, index, sha1, authored, codecVars>>

\* cmdInit: MkdirAll of the three directories, HEAD written if absent
CmdInit ==
    /\ NoWalk
    /\ gogit' = TRUE
    /\ head' = IF head.exists THEN head ELSE File(Str_headRef)
    /\ last' = Done("init", <<>>, "ok", NoPut, 0, <<>>)
    /\ UNCHANGED <<workdir, objdirs, objfiles, index, sha1, authored, codecVars>>

CmdHashObject(path, fault) ==
    LET r == hashObject(Fs, sha1, workdir, path, Str_blob, fault)
    IN  /\ NoWalk
        /\ SetFs(r.fs)
        /\ sha1' = r.seen
        /\ last' = Done("hash-object", path, StatusOf(r), PutOf(r), r.wrote, <<>>)
        /\ UNCHANGED <<workdir, head, index, authored, codecVars>>

CmdAdd(path, fault) ==
    LET r == cmdAdd(Fs, sha1, workdir, index, path, fault)
    IN  /\ NoWalk
        /\ SetFs(r.put.fs)
        /\ sha1' = r.put.seen
        /\ index' = r.index
        /\ last' = Done("add", path,
                        IF r.put.exit THEN "exit" ELSE IF r.err THEN "err" ELSE "ok",
                        PutOf(r.put), r.put.wrote, <<>>)
        /\ UNCHANGED <<workdir, head, authored, codecVars>>

CmdWriteTree(flt) ==
    LET r == cmdWriteTree(WtState(Fs, sha1, 0, 0, NoPut), workdir, Str_dot, flt)
    IN  /\ NoWalk
        /\ SetFs(r.fs)
        /\ sha1' = r.seen
        /\ last' = Done("write-tree", Str_dot, StatusOf(r.put), r.put, r.wrote, <<>>)
        /\ UNCHANGED <<workdir, head, index, authored, codecVars>>

CmdCommitTree(treeSha, parentSha, timestamp, message, fault) ==
    LET r == cmdCommitTree(Fs, sha1, treeSha, parentSha, timestamp, message, fault)
    IN  /\ NoWalk
        /\ SetFs(r.fs)
        /\ sha1' = r.seen
        /\ authored' = IF r.err \/ r.hash \in DOMAIN authored THEN authored
                       ELSE authored @@ (r.hash :> [treeId |-> treeSha,
                                                    parentId |-> parentSha,
                                                    message |-> message])
        /\ last' = Done("commit-tree", treeSha, StatusOf(r), PutOf(r), r.wrote, <<>>)
        /\ UNCHANGED <<workdir, head, index, codecVars>>

CmdLsTree(hash) ==
    LET r == cmdLsTree(objfiles, hash)
    IN  /\ NoWalk
        /\ last' = Done("ls-tree", hash, r.status, NoPut, 0, r.printed)
        /\ UNCHANGED <<workdir, gogit, head, objdirs, objfiles, index, sha1, authored,
                       codecVars>>

\* cmdLog up to its loop
LogStart(commitSha) ==
    /\ pc # "walking"
    /\ pc' = "walking"
    /\ currentSha' = commitSha
    /\ yielded' = <<>>
    /\ last' = Done("log", commitSha, "running", NoPut, 0, <<>>)
    /\ UNCHANGED <<workdir, gogit, head, objdirs, objfiles, index, sha1, authored,
                   codecVars>>

\* one pass of the loop of cmdLog
LogStep ==
    LET r == readObject(objfiles, currentSha)
        d == LogDecode(r.content)
    IN  /\ pc = "walking"
        /\ IF r.err # ""
           THEN /\ pc' = "aborted"
                /\ last' = [last EXCEPT !.status = "err", !.out = currentSha]
                /\ UNCHANGED <<currentSha, yielded>>
           ELSE /\ yielded' = Append(yielded, currentSha)
                /\ IF d.parentSha = <<>>
                   THEN /\ pc' = "done"
                        /\ last' = [last EXCEPT !.status = "ok"]
                        /\ UNCHANGED currentSha
                   ELSE /\ pc' = "walking"
                        /\ currentSha' = d.parentSha
                        /\ UNCHANGED last
        /\ UNCHANGED <<workdir, gogit, head, objdirs, objfiles, index, sha1, authored,
                       codecVars>>

-----------------------------------------------------------------------------
(* The inputs of the runs checked.                                         *)

\* "a", "d/a" and "m"; no file is ever at "m"
PathA == <<97>>
PathDA == <<100, Slash, 97>>
PathMissing == <<109>>
Contents == {<<120>>, <<121>>}
Messages == {<<109>>}
Times == {7}

AnySha == KnownShas \cup {BogusSha}

\* a repository just initialised, in a working tree of two files
StoreIdle ==
    /\ workdir = (PathA :> File(<<120>>)) @@ (PathDA :> File(<<120>>))
    /\ gogit = TRUE
    /\ head = File(Str_headRef)
    /\ objdirs = {}
    /\ objfiles = <<>>
    /\ index = NoFile
    /\ sha1 = <<>>
    /\ last = Done("init", <<>>, "ok", NoPut, 0, <<>>)
    /\ pc = "idle"
    /\ currentSha = <<>>
    /\ yielded = <<>>
    /\ authored = <<>>

Init ==
    /\ StoreIdle
    /\ cpc = "unused"
    /\ cin = <<>>
    /\ cbuf = <<>>
    /\ cout = <<>>

\* staging: the working tree, the object store and the index
StageStep ==
    \/ \E c \in Contents : Edit(PathA, File(c))
    \/ CmdInit
    \/ \E f \in {"none"} \cup PutFaults : CmdHashObject(PathA, f)
    \/ CmdHashObject(PathMissing, "none")
    \/ \E p \in {PathA, PathDA}, f \in {"none"} \cup PutFaults \cup IndexFaults : CmdAdd(p, f)
    \/ CmdAdd(PathMissing, "none")

Next == StageStep /\ Len(sha1') <= MaxObjects

Spec == Init /\ [][Next]_vars

\* history: commits and the walk over them
HistoryStep ==
    \/ \E f \in {"none"} \cup PutFaults : CmdHashObject(PathA, f)
    \/ \E p \in AnySha \cup {<<>>}, ts \in Times, m \in Messages, f \in {"none", "write"} :
            CmdCommitTree(BogusSha, p, ts, m, f)
    \/ \E h \in AnySha : LogStart(h)
    \/ LogStep

HistoryNext == HistoryStep /\ Len(sha1') <= MaxObjects

HistorySpec == Init /\ [][HistoryNext]_vars

\* every command
AllStep ==
    \/ CmdInit
    \/ \E f \in {"none", "write"} : CmdHashObject(PathA, f)
    \/ CmdAdd(PathA, "none")
    \/ \E flt \in {[at |-> 0, kind |-> "none"], [at |-> 3, kind |-> "write"]} : CmdWriteTree(flt)
    \/ \E p \in AnySha \cup {<<>>}, ts \in Times, m \in Messages :
            CmdCommitTree(BogusSha, p, ts, m, "none")
    \/ \E h \in AnySha : CmdLsTree(h)
    \/ \E h \in AnySha : LogStart(h)
    \/ LogStep

AllNext == AllStep /\ Len(sha1') <= MaxObjects

AllSpec == Init /\ [][AllNext]_vars

-----------------------------------------------------------------------------
(* The tree encoding on its own: a list of entries is encoded as           *)
(* cmdWriteTree encodes it, possibly cut short, and read back as cmdLsTree *)
(* reads it.                                                               *)

\* the payload the loop of cmdWriteTree builds from entries (mode, name, sha)
RECURSIVE TreeBuffer(_)
TreeBuffer(entries) ==
    IF entries = <<>> THEN <<>>
    ELSE TreeRecord(Head(entries).mode, Head(entries).name, Head(entries).sha)
         \o TreeBuffer(Tail(entries))

\* "a", "b" and "a b"
TreeNames == {<<97>>, <<98>>, <<97, SP, 98>>}

TreeEntries ==
    {[mode |-> m, name |-> n, sha |-> EncodeToString(Digest(k))] :
        m \in {Str_100644, Str_40000}, n \in TreeNames, k \in 0..1}

RECURSIVE SeqsUpTo(_, _)
SeqsUpTo(S, n) ==
    IF n = 0 THEN {<<>>}
    ELSE LET shorter == SeqsUpTo(S, n - 1)
         IN  shorter \cup {Append(q, x) : q \in {r \in shorter : Len(r) = n - 1}, x \in S}

\* the bytes cut off the end of a payload
CutSizes == {1, IdLen, IdLen + 1}

TreeInit ==
    /\ StoreIdle
    /\ cpc = "start"
    /\ cin \in SeqsUpTo(TreeEntries, MaxEntries)
    /\ cbuf = <<>>
    /\ cout = <<>>

TreeEncode ==
    /\ cpc = "start"
    /\ cpc' = "encoded"
    /\ cbuf' = TreeBuffer(cin)
    /\ UNCHANGED <<cin, cout, storeVars>>

TreeCut(n) ==
    /\ cpc = "encoded"
    /\ n <= Len(cbuf)
    /\ cpc' = "cut"
    /\ cbuf' = SubSeq(cbuf, 1, Len(cbuf) - n)
    /\ UNCHANGED <<cin, cout, storeVars>>

TreeDecode ==
    /\ cpc \in {"encoded", "cut"}
    /\ cpc' = IF cpc = "encoded" THEN "decoded" ELSE "cut-decoded"
    /\ cout' = LsTreeLoop(cbuf)
    /\ UNCHANGED <<cin, cbuf, storeVars>>

TreeNext ==
    \/ TreeEncode
    \/ \E n \in CutSizes : TreeCut(n)
    \/ TreeDecode

TreeSpec == TreeInit /\ [][TreeNext]_vars

-----------------------------------------------------------------------------
(* The commit encoding on its own: fields are encoded as cmdCommitTree     *)
(* encodes them and read back as one pass of cmdLog reads them.            *)

CommitMessages ==
    (SeqsUpTo({109, LF}, MaxMessage) \ {<<>>}) \cup {<<109, LF, LF>> \o Str_parentSp \o <<109>>}

CommitFields ==
    {[treeId |-> t, parentId |-> p, message |-> m, timestamp |-> ts] :
        t \in {EncodeToString(Digest(1))},
        p \in {<<>>, EncodeToString(Digest(2))},
        m \in CommitMessages,
        ts \in {0, 1700000000}}

CommitInit ==
    /\ StoreIdle
    /\ cpc = "start"
    /\ cin \in CommitFields
    /\ cbuf = <<>>
    /\ cout = <<>>

CommitEncode ==
    /\ cpc = "start"
    /\ cpc' = "encoded"
    /\ cbuf' = CommitBuffer(cin.treeId, cin.parentId, cin.timestamp, cin.message)
    /\ UNCHANGED <<cin, cout, storeVars>>

CommitDecode ==
    /\ cpc = "encoded"
    /\ cpc' = "decoded"
    /\ cout' = LogDecode(ObjHeader(Str_commit, cbuf) \o cbuf)
    /\ UNCHANGED <<cin, cbuf, storeVars>>

CommitNext ==
    \/ CommitEncode
    \/ CommitDecode

CommitSpec == CommitInit /\ [][CommitNext]_vars

-----------------------------------------------------------------------------
(* The object store: C1, C6, C7.                                           *)

\* the id names a file that holds a whole encoding whose digest is the id
WholeObject(files, hash) ==
    /\ readObject(files, hash).err = ""
    /\ DigestedAt(sha1, readObject(files, hash).content) # 0
    /\ EncodeToString(Sha1Sum(sha1, readObject(files, hash).content)) = hash

PutRan(r) == r.put.kind # <<>>

\* the put of the run returned its id
PutOk(r) == PutRan(r) /\ ~r.put.exit /\ ~r.put.err

\* C1: when a put that succeeded is followed at once by a put of the same
\* kind and payload, the second put returns the same id, writes nothing and
\* leaves every object file as it was.
C1_PutIdempotent ==
    [][(PutOk(last) /\ PutRan(last') /\ last'.put.kind = last.put.kind
            /\ last'.put.payload = last.put.payload)
        => /\ PutOk(last')
           /\ last'.put.hash = last.put.hash
           /\ last'.wrote = 0
           /\ objfiles' = objfiles]_vars

\* a put found its object whole in the store and wrote nothing
C1_Witness ==
    /\ last.cmd = "hash-object"
    /\ PutOk(last)
    /\ last.wrote = 0
    /\ WholeObject(objfiles, last.put.hash)

\* C6: every object file in the store is whole and holds the encoding whose
\* digest is its id, whichever puts failed before.
C6_NoHalfWrittenObject ==
    \A path \in DOMAIN objfiles : WholeObject(objfiles, path[1] \o path[2])

\* C7: a step of any command leaves every object file that exists in place
\* with the bytes it had, so that readObject gives what it gave before.
C7_ObjectsImmutable ==
    [][\A path \in DOMAIN objfiles :
            /\ path \in DOMAIN objfiles'
            /\ objfiles'[path] = objfiles[path]
            /\ readObject(objfiles', path[1] \o path[2])
                 = readObject(objfiles, path[1] \o path[2])]_vars

\* a commit was written while two other objects were in the store
C7_Witness ==
    /\ last.cmd = "commit-tree"
    /\ PutOk(last)
    /\ last.wrote > 0
    /\ Cardinality(DOMAIN objfiles) >= 3

-----------------------------------------------------------------------------
(* The staging index: C2, C10.                                             *)

Staged(idx) == readIndex(idx).entries

StagedPaths(idx) == {Staged(idx)[i].Path : i \in 1..Len(Staged(idx))}

OnePerPath ==
    \A i, j \in 1..Len(Staged(index)) :
        Staged(index)[i].Path = Staged(index)[j].Path => i = j

StageEffect ==
    (last'.cmd = "add" /\ last'.status = "ok") =>
        LET old == Staged(index)
            new == Staged(index')
            entry == [Mode |-> FileMode, Hash |-> DecodeString(last'.put.hash),
                      Path |-> last'.arg]
        IN  /\ readIndex(index').err = ""
            /\ IF last'.arg \in StagedPaths(index)
               THEN /\ Len(new) = Len(old)
                    /\ \A i \in 1..Len(old) :
                          new[i] = IF old[i].Path = last'.arg THEN entry ELSE old[i]
               ELSE new = Append(old, entry)

\* C2: the index never holds two entries of one path; a stage that succeeds
\* on a path already in the index puts the new hash and mode at that entry's
\* position and changes no other entry and not the count, and on a path not
\* in the index appends one entry at the end.
C2_StageReplace == []OnePerPath /\ [][StageEffect]_vars

\* "a" was staged again after "d/a" and kept the first position with a
\* hash that differs from the other entry's
C2_Witness ==
    /\ last.cmd = "add"
    /\ last.status = "ok"
    /\ last.arg = PathA
    /\ Len(Staged(index)) = 2
    /\ Staged(index)[1].Path = PathA
    /\ Staged(index)[1].Hash = DecodeString(last.put.hash)
    /\ Staged(index)[1].Hash # Staged(index)[2].Hash

\* C10: every entry of the index carries the id of a blob object that
\* readObject finds in the store.
C10_IndexRefersToBlobs ==
    \A i \in 1..Len(Staged(index)) :
        LET r == readObject(objfiles, EncodeToString(Staged(index)[i].Hash))
        IN  r.err = "" /\ HasPrefix(r.content, Str_blob \o <<SP>>)

-----------------------------------------------------------------------------
(* The history walk: C3, C4.                                               *)

\* the id names a commit that was written and is whole in the store
CommitPresent(hash) ==
    /\ hash \in DOMAIN authored
    /\ readObject(objfiles, hash).err = ""

\* every commit from hash down to a commit without parent is present
RECURSIVE ProperChain(_)
ProperChain(hash) ==
    /\ CommitPresent(hash)
    /\ authored[hash].parentId # <<>> => ProperChain(authored[hash].parentId)

\* the ids from hash down to the commit without parent
RECURSIVE Chain(_)
Chain(hash) ==
    IF authored[hash].parentId = <<>> THEN <<hash>>
    ELSE <<hash>> \o Chain(authored[hash].parentId)

WalkFollowsChain ==
    (last.cmd = "log" /\ ProperChain(last.arg)) =>
        LET chain == Chain(last.arg)
        IN  /\ pc # "aborted"
            /\ Len(yielded) <= Len(chain)
            /\ yielded = SubSeq(chain, 1, Len(yielded))
            /\ pc = "walking" => /\ Len(yielded) < Len(chain)
                                 /\ currentSha = chain[Len(yielded) + 1]
            /\ pc = "done" => yielded = chain

\* a pass of the loop over a present chain yields the id at the cursor and
\* either moves the cursor or ends the walk
WalkAdvances ==
    (pc = "walking" /\ ProperChain(last.arg)) =>
        /\ yielded' = Append(yielded, currentSha)
        /\ pc' \in {"walking", "done"}
        /\ pc' = "done" <=> yielded' = Chain(last.arg)

\* C3: a walk started at the head of a chain of present commits that ends
\* at a commit without parent yields the ids of the chain in order from
\* child to parent, each once: every pass of the loop yields the next id of
\* the chain, the walk never fails, and it ends exactly when the commit
\* without parent has been yielded.
C3_WalkYieldsChain == []WalkFollowsChain /\ [][WalkAdvances]_vars

\* a walk from a commit with a parent came to its end
C3_Witness ==
    /\ pc = "done"
    /\ ProperChain(last.arg)
    /\ Len(yielded) = 2
    /\ authored[yielded[1]].parentId = yielded[2]
    /\ authored[yielded[2]].parentId = <<>>

\* C4: every id the walk yields names an object of kind commit.
C4_WalkYieldsCommitsOnly ==
    \A i \in 1..Len(yielded) :
        /\ readObject(objfiles, yielded[i]).err = ""
        /\ HasPrefix(readObject(objfiles, yielded[i]).content, Str_commit \o <<SP>>)

-----------------------------------------------------------------------------
(* The encodings: C5, C9, C8.                                              *)

\* the entries cmdLsTree printed, as (mode, name, sha)
PrintedEntries(printed) ==
    [i \in 1..Len(printed) |->
        [mode |-> printed[i].mode, name |-> printed[i].name, sha |-> printed[i].shaStr]]

\* C5: reading back the encoding of a list of entries gives the list, with
\* the same modes, names, ids and order.
C5_TreeRoundTrip ==
    cpc = "decoded" =>
        /\ cout.status = "ok"
        /\ Len(cout.printed) = Len(cin)
        /\ \A i \in 1..Len(cin) : PrintedEntries(cout.printed)[i] = cin[i]

\* C9: reading a payload that lost between 1 and 20 bytes at its end, so
\* that fewer than 20 bytes follow the NUL of the last name, fails and
\* prints no entry for the short id.
C9_TruncatedTreeRejected ==
    (cpc = "cut-decoded" /\ Len(TreeBuffer(cin)) - Len(cbuf) \in 1..IdLen) =>
        /\ cout.status # "ok"
        /\ Len(cout.printed) < Len(cin)

\* C8: reading back the encoding of commit fields gives the tree id, the
\* message, and a parent exactly when the fields have one.
C8_CommitRoundTrip ==
    cpc = "decoded" =>
        /\ cout.lines[1] = Str_treeSp \o cin.treeId
        /\ cout.shown
        /\ cout.message = cin.message
        /\ (cout.parentSha = <<>>) <=> (cin.parentId = <<>>)

====
